---------------------------- MODULE Spec2Model ----------------------------
(***************************************************************************)
(* Model of the arbitrary-precision natural number type of rkn             *)
(* (src/natural.rs): the Small/Large representation, add_assign and        *)
(* mul_assign.  Limbs are LimbBits wide instead of 64 bits; every limb     *)
(* operation wraps modulo Base = 2^LimbBits exactly as the u64 operations  *)
(* wrap modulo 2^64.                                                       *)
(***************************************************************************)
EXTENDS Integers, Sequences, FiniteSets, TLC

VARIABLES a, b, c, sum, rsum, bc, left, right, prod, rprod, reg, aborted

vars == <<a, b, c, sum, rsum, bc, left, right, prod, rprod, reg, aborted>>

(***************************************************************************)
(* Bounds                                                                  *)
(***************************************************************************)
\* width of a limb in bits (u64 in the source)
LimbBits == 3
\* longest limb sequence given to a binary operation
MaxLen == 3
\* longest limb sequence given to the three-operand sums
AssocLen == 2
\* longest limb sequence given to a multiplication
MulLen == 2
\* largest value a register may hold and still be used as an operand
ReachMax == 100

Base == 2 ^ LimbBits
\* Limb::MAX
MAX == Base - 1
\* the limb values of the operands of a sum: the edges of the limb range
Digits == {0, 1, MAX - 1, MAX}
\* the limb values of the operands of a product: 2 * 2 fits a limb, 2 * MAX
\* does not
MulDigits == {0, 1, 2, MAX - 1, MAX}
\* the limb values of the three-operand sums
AssocDigits == {0, 1, MAX}

(***************************************************************************)
(* Repr, Natural and the constructors                                      *)
(***************************************************************************)
Small(v) == [tag |-> "Small", limbs |-> <<v>>]
Large(s) == [tag |-> "Large", limbs |-> s]

ZERO == Small(0)
ONE == Small(1)

\* From<Limb>::from
from_limb(v) == Small(v)

\* the test-only constructor
from_limbs(s) ==
  IF Len(s) = 0 THEN Small(0)
  ELSE IF Len(s) = 1 THEN Small(s[1])
  ELSE Large(s)

\* no value yet
NoVal == [tag |-> "None", limbs |-> <<>>]
\* the call unwound through todo!()
Panic == [tag |-> "Panic", limbs |-> <<>>]

IsNatural(n) == n.tag \in {"Small", "Large"}

(***************************************************************************)
(* Limb primitives (u64 methods), at width LimbBits                        *)
(***************************************************************************)
overflowing_add(x, y) == <<(x + y) % Base, (x + y) >= Base>>

carrying_add(x, y, carry) ==
  LET s == x + y + (IF carry THEN 1 ELSE 0)
  IN  <<s % Base, s >= Base>>

\* widening_mul keeping only the low half
widening_mul_Wrapping(x, y) == <<(x * y) % Base, 0>>

widening_mul(x, y) == <<(x * y) % Base, (x * y) \div Base>>

(***************************************************************************)
(* add_assign                                                              *)
(***************************************************************************)
\* the carry loop never clearing `carry`
RECURSIVE Ripple_StickyCarry(_, _, _)
Ripple_StickyCarry(x, i, carry) ==
  IF i > Len(x) \/ ~carry THEN <<x, carry>>
  ELSE LET r == overflowing_add(x[i], 1)
       IN  Ripple_StickyCarry([x EXCEPT ![i] = r[1]], i + 1, carry)

\* the carry loop `for limb in x.iter_mut().skip(k)`, from index i (1-based)
RECURSIVE Ripple(_, _, _)
Ripple(x, i, carry) ==
  IF i > Len(x) \/ ~carry THEN <<x, carry>>
  ELSE LET r == overflowing_add(x[i], 1)
       IN  Ripple([x EXCEPT ![i] = r[1]], i + 1, r[2])

\* the zip loop with overflowing_add in place of carrying_add
RECURSIVE ZipAdd_DropCarryIn(_, _, _, _)
ZipAdd_DropCarryIn(x, y, i, carry) ==
  IF i > Len(x) \/ i > Len(y) THEN <<x, carry>>
  ELSE LET r == overflowing_add(x[i], y[i])
       IN  ZipAdd_DropCarryIn([x EXCEPT ![i] = r[1]], y, i + 1, r[2])

\* the loop over x.iter_mut().zip(y), from index i (1-based)
RECURSIVE ZipAdd(_, _, _, _)
ZipAdd(x, y, i, carry) ==
  IF i > Len(x) \/ i > Len(y) THEN <<x, carry>>
  ELSE LET r == carrying_add(x[i], y[i], carry)
       IN  ZipAdd([x EXCEPT ![i] = r[1]], y, i + 1, r[2])

\* the final carry never pushed
PushCarry_Drop(xc) == xc[1]

\* `if carry { x.push(1) }`
PushCarry(xc) == IF xc[2] THEN Append(xc[1], 1) ELSE xc[1]

\* wrapping_add: the overflow never switches the representation
AddSmallSmall_Wrapping(x, y) == Small(overflowing_add(x, y)[1])

\* (Small(x), Small(y))
AddSmallSmall(x, y) ==
  LET r == overflowing_add(x, y)
  IN  IF r[2] THEN Large(<<r[1], 1>>) ELSE Small(r[1])

\* (Large(x), Small(y))
AddLargeSmall(x, y) ==
  LET r == overflowing_add(x[1], y)
  IN  Large(PushCarry(Ripple([x EXCEPT ![1] = r[1]], 2, r[2])))

\* without the swap that makes `x` the longer of the two
AddLargeLarge_NoSwap(x0, y0) ==
  LET z == ZipAdd(x0, y0, 1, FALSE)
  IN  Large(PushCarry(Ripple(z[1], Len(y0) + 1, z[2])))

\* (Large(x), Large(y))
AddLargeLarge(x0, y0) ==
  LET swap == Len(x0) < Len(y0)
      x == IF swap THEN y0 ELSE x0
      y == IF swap THEN x0 ELSE y0
      z == ZipAdd(x, y, 1, FALSE)
  IN  Large(PushCarry(Ripple(z[1], Len(y) + 1, z[2])))

\* the value of `self` after `self += other`; (Small, Large) swaps the two
\* and adds again
RECURSIVE add_assign(_, _)
add_assign(self, other) ==
  IF self.tag = "Small" /\ other.tag = "Small"
    THEN AddSmallSmall(self.limbs[1], other.limbs[1])
  ELSE IF self.tag = "Small" /\ other.tag = "Large"
    THEN add_assign(other, self)
  ELSE IF self.tag = "Large" /\ other.tag = "Small"
    THEN AddLargeSmall(self.limbs, other.limbs[1])
  ELSE AddLargeLarge(self.limbs, other.limbs)

\* Add::add
add(self, other) == add_assign(self, other)

(***************************************************************************)
(* mul_assign                                                              *)
(***************************************************************************)
\* the product always stored as two limbs
MulSmallSmall_AlwaysLarge(x, y) ==
  LET r == widening_mul(x, y)
  IN  Large(<<r[1], r[2]>>)

\* (Small(x), Small(y))
MulSmallSmall(x, y) ==
  LET r == widening_mul(x, y)
  IN  IF r[2] # 0 THEN Large(<<r[1], r[2]>>) ELSE Small(r[1])

\* (Large(_), Small(_)): todo!()
MulLargeSmall(x, y) == Panic

\* (Large(_), Large(_)): todo!()
MulLargeLarge(x, y) == Panic

\* without the `(_, Small(1))` arm
RECURSIVE mul_assign_NoOneArm(_, _)
mul_assign_NoOneArm(self, other) ==
  IF self = Small(0) THEN self
  ELSE IF other = Small(0) THEN ZERO
  ELSE IF self = Small(1) THEN other
  ELSE IF self.tag = "Small" /\ other.tag = "Small"
    THEN MulSmallSmall(self.limbs[1], other.limbs[1])
  ELSE IF self.tag = "Small" /\ other.tag = "Large"
    THEN mul_assign_NoOneArm(other, self)
  ELSE IF self.tag = "Large" /\ other.tag = "Small"
    THEN MulLargeSmall(self.limbs, other.limbs[1])
  ELSE MulLargeLarge(self.limbs, other.limbs)

\* the value of `self` after `self *= other`, or Panic; (Small, Large) swaps
\* the two and multiplies again
RECURSIVE mul_assign(_, _)
mul_assign(self, other) ==
  IF self = Small(0) THEN self
  ELSE IF other = Small(0) THEN ZERO
  ELSE IF self = Small(1) THEN other
  ELSE IF other = Small(1) THEN self
  ELSE IF self.tag = "Small" /\ other.tag = "Small"
    THEN MulSmallSmall(self.limbs[1], other.limbs[1])
  ELSE IF self.tag = "Small" /\ other.tag = "Large"
    THEN mul_assign(other, self)
  ELSE IF self.tag = "Large" /\ other.tag = "Small"
    THEN MulLargeSmall(self.limbs, other.limbs[1])
  ELSE MulLargeLarge(self.limbs, other.limbs)

\* Mul::mul
mul(self, other) == mul_assign(self, other)

(***************************************************************************)
(* Inputs                                                                  *)
(***************************************************************************)
\* limb sequences of length 1..n over the limb values D
LimbSeqs(D, n) == UNION {[1..k -> D] : k \in 1..n}

\* every Natural from_limb and from_limbs build from 1..n limbs of D
Naturals(D, n) == {from_limbs(s) : s \in LimbSeqs(D, n)}

\* numeric value: sum of limbs[i] * Base^(i-1)
RECURSIVE SeqValue(_, _)
SeqValue(s, i) ==
  IF i > Len(s) THEN 0 ELSE s[i] * Base ^ (i - 1) + SeqValue(s, i + 1)

Value(n) == SeqValue(n.limbs, 1)

(***************************************************************************)
(* Binary operations on constructed operands: a + b, b + a, a * b, b * a   *)
(***************************************************************************)
Idle ==
  /\ sum = NoVal /\ rsum = NoVal /\ bc = NoVal /\ left = NoVal
  /\ right = NoVal /\ prod = NoVal /\ rprod = NoVal
  /\ reg = <<ZERO, ZERO>> /\ aborted = FALSE

Init ==
  /\ a \in Naturals(Digits, MaxLen)
  /\ b \in Naturals(Digits, MaxLen)
  /\ c = ZERO
  /\ Idle

\* sum = a + b
AddAB ==
  /\ sum = NoVal
  /\ sum' = add(a, b)
  /\ UNCHANGED <<a, b, c, rsum, bc, left, right, prod, rprod, reg, aborted>>

\* rsum = b + a
AddBA ==
  /\ rsum = NoVal
  /\ rsum' = add(b, a)
  /\ UNCHANGED <<a, b, c, sum, bc, left, right, prod, rprod, reg, aborted>>

\* prod = a * b
MulAB ==
  /\ prod = NoVal
  /\ prod' = mul(a, b)
  /\ UNCHANGED <<a, b, c, sum, rsum, bc, left, right, rprod, reg, aborted>>

\* rprod = b * a
MulBA ==
  /\ rprod = NoVal
  /\ rprod' = mul(b, a)
  /\ UNCHANGED <<a, b, c, sum, rsum, bc, left, right, prod, reg, aborted>>

Next == AddAB \/ AddBA

Spec == Init /\ [][Next]_vars

InitMul ==
  /\ a \in Naturals(MulDigits, MulLen)
  /\ b \in Naturals(MulDigits, MulLen)
  /\ c = ZERO
  /\ Idle

NextMul == MulAB \/ MulBA

SpecMul == InitMul /\ [][NextMul]_vars

(***************************************************************************)
(* Three operands: left = (a + b) + c, right = a + (b + c)                 *)
(***************************************************************************)
InitAssoc ==
  /\ a \in Naturals(AssocDigits, AssocLen)
  /\ b \in Naturals(AssocDigits, AssocLen)
  /\ c \in Naturals(AssocDigits, AssocLen)
  /\ Idle

\* left = sum + c
AddLeft ==
  /\ sum # NoVal /\ left = NoVal
  /\ left' = add(sum, c)
  /\ UNCHANGED <<a, b, c, sum, rsum, bc, right, prod, rprod, reg, aborted>>

\* bc = b + c
AddBC ==
  /\ bc = NoVal
  /\ bc' = add(b, c)
  /\ UNCHANGED <<a, b, c, sum, rsum, left, right, prod, rprod, reg, aborted>>

\* right = a + bc
AddRight ==
  /\ bc # NoVal /\ right = NoVal
  /\ right' = add(a, bc)
  /\ UNCHANGED <<a, b, c, sum, rsum, bc, left, prod, rprod, reg, aborted>>

NextAssoc == AddAB \/ AddLeft \/ AddBC \/ AddRight

SpecAssoc == InitAssoc /\ [][NextAssoc]_vars

(***************************************************************************)
(* Values built from ZERO, ONE and from_limb(v) by + and * only.  Two      *)
(* registers hold the values built so far; a multiplication that reaches   *)
(* todo!() aborts the run.                                                 *)
(***************************************************************************)
InitReach ==
  /\ a = ZERO /\ b = ZERO /\ c = ZERO
  /\ Idle

Usable(n) == Value(n) <= ReachMax

\* reg[i] after an operation returned `out`, or the abort
Return(i, out) ==
  IF out = Panic
    THEN aborted' = TRUE /\ UNCHANGED reg
    ELSE reg' = [reg EXCEPT ![i] = out] /\ UNCHANGED aborted

\* reg[i] = Natural::from(v), or one of the two constants
FromLimb(i, v) ==
  /\ ~aborted
  /\ reg' = [reg EXCEPT ![i] = from_limb(v)]
  /\ UNCHANGED <<a, b, c, sum, rsum, bc, left, right, prod, rprod, aborted>>

\* reg[i] = reg[i] + reg[j]
AddReg(i, j) ==
  /\ ~aborted /\ Usable(reg[i]) /\ Usable(reg[j])
  /\ Return(i, add(reg[i], reg[j]))
  /\ UNCHANGED <<a, b, c, sum, rsum, bc, left, right, prod, rprod>>

\* reg[i] = reg[i] + Natural::from(v)
AddLimb(i, v) ==
  /\ ~aborted /\ Usable(reg[i])
  /\ Return(i, add(reg[i], from_limb(v)))
  /\ UNCHANGED <<a, b, c, sum, rsum, bc, left, right, prod, rprod>>

\* reg[i] = Natural::from(v) + reg[i]
LimbAdd(i, v) ==
  /\ ~aborted /\ Usable(reg[i])
  /\ Return(i, add(from_limb(v), reg[i]))
  /\ UNCHANGED <<a, b, c, sum, rsum, bc, left, right, prod, rprod>>

\* reg[i] = reg[i] * reg[j]
MulReg(i, j) ==
  /\ ~aborted /\ Usable(reg[i]) /\ Usable(reg[j])
  /\ Return(i, mul(reg[i], reg[j]))
  /\ UNCHANGED <<a, b, c, sum, rsum, bc, left, right, prod, rprod>>

\* reg[i] = reg[i] * Natural::from(v)
MulLimb(i, v) ==
  /\ ~aborted /\ Usable(reg[i])
  /\ Return(i, mul(reg[i], from_limb(v)))
  /\ UNCHANGED <<a, b, c, sum, rsum, bc, left, right, prod, rprod>>

\* reg[i] = Natural::from(v) * reg[i]
LimbMul(i, v) ==
  /\ ~aborted /\ Usable(reg[i])
  /\ Return(i, mul(from_limb(v), reg[i]))
  /\ UNCHANGED <<a, b, c, sum, rsum, bc, left, right, prod, rprod>>

NextReach ==
  \E i \in 1..2 :
    \/ \E v \in MulDigits : FromLimb(i, v)
    \/ \E j \in 1..2 : AddReg(i, j)
    \/ \E v \in MulDigits : AddLimb(i, v)
    \/ \E v \in MulDigits : LimbAdd(i, v)
    \/ \E j \in 1..2 : MulReg(i, j)
    \/ \E v \in MulDigits : MulLimb(i, v)
    \/ \E v \in MulDigits : LimbMul(i, v)

SpecReach == InitReach /\ [][NextReach]_vars

(***************************************************************************)
(* Properties                                                              *)
(***************************************************************************)
NLimbs(n) == Len(n.limbs)
Longer(m, n) == IF NLimbs(m) < NLimbs(n) THEN NLimbs(n) ELSE NLimbs(m)
\* Large with every limb MAX
AllMax(n) == n.tag = "Large" /\ \A i \in 1..NLimbs(n) : n.limbs[i] = MAX
\* the number 1, as Small(1) or as a Large of k limbs [1, 0, ..., 0]
IsOneOf(n, k) ==
  \/ n = Small(1)
  \/ n = Large([i \in 1..k |-> IF i = 1 THEN 1 ELSE 0])
\* a Large that is canonical: two or more limbs, the last one nonzero
WellFormed(n) ==
  \/ n.tag = "Small" /\ NLimbs(n) = 1
  \/ n.tag = "Large" /\ NLimbs(n) >= 2 /\ n.limbs[NLimbs(n)] # 0

\* C1: a + b and b + a are Naturals whose value is value(a) + value(b), for
\* Small and Large operands of any lengths.
C1_AddValue ==
  \A out \in {sum, rsum} :
    out # NoVal => IsNatural(out) /\ Value(out) = Value(a) + Value(b)

\* two Large operands of different lengths whose sum grew by a limb
C1_Witness ==
  /\ sum # NoVal /\ a.tag = "Large" /\ b.tag = "Large"
  /\ NLimbs(a) < NLimbs(b) /\ NLimbs(sum) > NLimbs(b)
  /\ Value(sum) = Value(a) + Value(b)

\* C2: a * b and b * a always return a Natural; the multiplication never
\* panics.
C2_MulNeverFails == prod # Panic /\ rprod # Panic

\* C3: a + b and b + a are the same Natural: same tag, same limb sequence.
C3_AddCommutes == (sum # NoVal /\ rsum # NoVal) => sum = rsum

\* both orders done on a Small and a longer Large, and on two Larges of
\* different lengths
C3_Witness ==
  /\ sum # NoVal /\ rsum # NoVal /\ sum = rsum
  /\ NLimbs(a) # NLimbs(b) /\ b.tag = "Large"

\* C4: (a + b) + c and a + (b + c) are the same Natural: same tag, same limb
\* sequence, same number of limbs.
C4_AddAssociates == (left # NoVal /\ right # NoVal) => left = right

\* both sums done, with a carry into a new limb in a + b and not in b + c
C4_Witness ==
  /\ left # NoVal /\ right # NoVal /\ left = right
  /\ NLimbs(sum) > Longer(a, b) /\ NLimbs(bc) = Longer(b, c)
  /\ c.tag = "Large"

\* C5: with b = ONE both a * b and b * a are a; with b = ZERO both are ZERO;
\* for Small and Large a.
C5_MulIdentityZero ==
  /\ (prod # NoVal /\ b = ONE) => prod = a
  /\ (rprod # NoVal /\ b = ONE) => rprod = a
  /\ (prod # NoVal /\ b = ZERO) => prod = ZERO
  /\ (rprod # NoVal /\ b = ZERO) => rprod = ZERO

\* a Large a multiplied by ONE on both sides
C5_Witness ==
  /\ a.tag = "Large" /\ b = ONE /\ prod = a /\ rprod = a

\* C6: a * b and b * a both return, and return the same Natural.
C6_MulCommutes ==
  (prod # NoVal /\ rprod # NoVal) =>
    IsNatural(prod) /\ IsNatural(rprod) /\ prod = rprod

\* C7: for Small a and b, a + b is Small(a + b) when that fits a limb and
\* otherwise the two limbs [(a + b) mod Base, 1].
C7_SmallSmallAdd ==
  (sum # NoVal /\ a.tag = "Small" /\ b.tag = "Small") =>
    LET t == a.limbs[1] + b.limbs[1]
    IN  sum = IF t <= MAX THEN Small(t) ELSE Large(<<t % Base, 1>>)

\* from_limb(MAX) + from_limb(MAX) = [MAX - 1, 1]
C7_Witness ==
  a = Small(MAX) /\ b = Small(MAX) /\ sum = Large(<<MAX - 1, 1>>)

\* C8: a sum has at most one limb more than its longer operand, and that
\* limb is 1; adding 1 to a Large of n limbs MAX gives n zero limbs and a 1.
C8_CarryRipple ==
  /\ \A out \in {sum, rsum} :
       out # NoVal =>
         /\ NLimbs(out) <= Longer(a, b) + 1
         /\ NLimbs(out) = Longer(a, b) + 1 => out.limbs[NLimbs(out)] = 1
  /\ (sum # NoVal /\ AllMax(a) /\ IsOneOf(b, NLimbs(a))) =>
       sum = Large([i \in 1..(NLimbs(a) + 1) |->
                      IF i = NLimbs(a) + 1 THEN 1 ELSE 0])

\* [MAX, MAX, MAX] + [1, 0, 0] = [0, 0, 0, 1]
C8_Witness ==
  /\ AllMax(a) /\ NLimbs(a) >= 3 /\ b.tag = "Large" /\ IsOneOf(b, NLimbs(a))
  /\ sum # NoVal /\ NLimbs(sum) = NLimbs(a) + 1

\* C9: for Small a and b, a * b is Small(low) when the high half of the
\* double-width product is 0 and [low, high] otherwise.
C9_SmallSmallMul ==
  (prod # NoVal /\ a.tag = "Small" /\ b.tag = "Small") =>
    LET p == a.limbs[1] * b.limbs[1]
    IN  prod = IF p \div Base = 0 THEN Small(p % Base)
               ELSE Large(<<p % Base, p \div Base>>)

\* Small(MAX) * Small(MAX) = [1, MAX - 1]
C9_Witness ==
  a = Small(MAX) /\ b = Small(MAX) /\ prod = Large(<<1, MAX - 1>>)

\* C10: every value built from ZERO, ONE and from_limb(v) by additions and
\* multiplications that return is Small, or Large with two or more limbs and
\* a nonzero last limb, so no Large value fits in one limb.
C10_ReachableWellFormed ==
  \A i \in 1..2 :
    /\ WellFormed(reg[i])
    /\ reg[i].tag = "Large" => Value(reg[i]) >= Base

\* a three-limb Large beside a two-limb Large
C10_Witness ==
  /\ ~aborted /\ reg[1].tag = "Large" /\ NLimbs(reg[1]) = 3
  /\ reg[2].tag = "Large" /\ NLimbs(reg[2]) = 2

=============================================================================
